---- MODULE Spec2Model ----
(***************************************************************************)
(* Model of the LAN-discovery relay, src/pterodactyl/lan_broadcast_fix.py. *)
(* Bytes are integers 0..255, packets are sequences of bytes, an IPv4      *)
(* address is the tuple of its four octets, a Python str is the sequence   *)
(* of its code points, and an optional value (str or None) is a record     *)
(* [some, val].                                                            *)
(* The world files of src/bedrock_addon_installer.py are modelled too: a   *)
(* file is a record of its raw formatting and its JSON value, a JSON list  *)
(* is a sequence of items, a pack version [n, 0, 0] is the number n.       *)
(***************************************************************************)
EXTENDS Integers, Sequences, FiniteSets, TLC

VARIABLES
    pc,              \* position of main(): start, bind, recv, probe, reply, done, codec, codec_done
    status,          \* process: running, exit1, returned, killed, crashed
    signal,          \* a KeyboardInterrupt has been delivered
    target_ips,      \* TARGET_IPS
    resolver_calls,  \* number of calls of get_local_interfaces_ips
    if_out,          \* what the command of line 25 gave to the last of them
    ips_to_announce, \* main: ips_to_announce
    listener,        \* main: listener socket: none, open, bound
    data,            \* main: data of the last recvfrom
    addr,            \* main: addr of the last recvfrom
    idx,             \* position of the for loop over ips_to_announce (1-based)
    real_motd,       \* main: real_motd
    pong,            \* result of create_pong_packet when it is applied on its own
    probe_sock,      \* query_local_server: sock: none, open, closed
    reply_sock,      \* main: reply_sock: none, open (not closed), closed
    nprobes,         \* calls of query_local_server for the current datagram
    last_probe,      \* the datagram the last of them sent
    nanswered,       \* those of them that returned a non-empty status string
    ans_idx,         \* position of the last candidate that did
    nfailed,         \* reply attempts for the current datagram that raised
    nsent,           \* pongs sent for the current datagram
    last_sent,       \* the last of them
    kind,            \* what happened with the current datagram
    prev,            \* what happened with the datagram before it
    world_file,      \* worlds/<world>/world_<type>_packs.json, by type
    prewrite_bak,    \* world_<type>_packs.json.prewrite.bak, by type
    invalid_bak,     \* world_<type>_packs.json.invalid.bak, by type
    folders,         \* packs in behavior_packs/ and resource_packs/
    last_op          \* the last call on the world files and how it ended

relay_vars == <<pc, status, signal, target_ips, resolver_calls, if_out, ips_to_announce,
          listener, data, addr, idx, real_motd, pong, probe_sock, reply_sock,
          nprobes, last_probe, nanswered, ans_idx, nfailed, nsent, last_sent,
          kind, prev>>

world_vars == <<world_file, prewrite_bak, invalid_bak, folders, last_op>>

vars == <<relay_vars, world_vars>>

----------------------------------------------------------------------------
(* Bounds of the model *)

\* longest output of the interface listing, in lines
MaxIfLines == 2

\* longest list a world file holds at the start, in items
MaxItems == 2

----------------------------------------------------------------------------
(* Constants of the program *)

BROADCAST_PORT == 19132
UNCONNECTED_PING_ID == 1
UNCONNECTED_PONG_ID == 28
MAGIC == <<0, 255, 255, 0, 254, 254, 254, 254, 253, 253, 253, 253, 18, 52, 86, 120>>
PONG_OFFSET == 33

None == [some |-> FALSE, val |-> <<>>]
Some(v) == [some |-> TRUE, val |-> v]
\* Python truthiness of a str-or-None
Truthy(m) == m.some /\ m.val # <<>>

----------------------------------------------------------------------------
(* Byte and string helpers *)

Min(a, b) == IF a < b THEN a ELSE b

\* Python slice s[lo:hi] with 0-based, clamped bounds
Slice(s, lo, hi) ==
    LET h == Min(hi, Len(s))
    IN IF lo >= h THEN <<>> ELSE SubSeq(s, lo + 1, h)

\* int.to_bytes(k, byteorder='big') for a value that fits
RECURSIVE ToBytes(_, _)
ToBytes(n, k) == IF k = 0 THEN <<>> ELSE Append(ToBytes(n \div 256, k - 1), n % 256)

\* int.from_bytes(b, byteorder='big')
RECURSIVE FromBytes(_)
FromBytes(b) ==
    IF b = <<>> THEN 0
    ELSE 256 * FromBytes(SubSeq(b, 1, Len(b) - 1)) + b[Len(b)]

\* str(n) for n >= 0, as code points
RECURSIVE Str(_)
Str(n) == IF n < 10 THEN <<48 + n>> ELSE Append(Str(n \div 10), 48 + (n % 10))

\* one code point in UTF-8
Utf8Char(c) ==
    IF c < 128 THEN <<c>>
    ELSE IF c < 2048 THEN <<192 + (c \div 64), 128 + (c % 64)>>
    ELSE IF c < 65536 THEN <<224 + (c \div 4096), 128 + ((c \div 64) % 64), 128 + (c % 64)>>
    ELSE <<240 + (c \div 262144), 128 + ((c \div 4096) % 64),
           128 + ((c \div 64) % 64), 128 + (c % 64)>>

\* str.encode('utf-8')
RECURSIVE Utf8Encode(_)
Utf8Encode(s) == IF s = <<>> THEN <<>> ELSE Utf8Char(Head(s)) \o Utf8Encode(Tail(s))

IsCont(b) == b >= 128 /\ b <= 191

\* bytes.decode('utf-8'): None stands for UnicodeDecodeError
RECURSIVE Utf8Decode(_)
Utf8Decode(b) ==
    IF \A i \in 1..Len(b) : b[i] < 128
    THEN Some(b)   \* ASCII bytes are their own code points
    ELSE
      LET b1 == b[1]
          n  == IF b1 < 128 THEN 1
                ELSE IF b1 >= 194 /\ b1 <= 223 THEN 2
                ELSE IF b1 >= 224 /\ b1 <= 239 THEN 3
                ELSE IF b1 >= 240 /\ b1 <= 244 THEN 4
                ELSE 0
      IN IF n = 0 \/ Len(b) < n THEN None
         ELSE
           LET okc == /\ \A i \in 2..n : IsCont(b[i])
                      /\ (b1 = 224 => b[2] >= 160)
                      /\ (b1 = 237 => b[2] <= 159)
                      /\ (b1 = 240 => b[2] >= 144)
                      /\ (b1 = 244 => b[2] <= 143)
               c == IF n = 1 THEN b1
                    ELSE IF n = 2 THEN (b1 - 192) * 64 + (b[2] - 128)
                    ELSE IF n = 3 THEN (b1 - 224) * 4096 + (b[2] - 128) * 64 + (b[3] - 128)
                    ELSE (b1 - 240) * 262144 + (b[2] - 128) * 4096
                         + (b[3] - 128) * 64 + (b[4] - 128)
               rest == Utf8Decode(SubSeq(b, n + 1, Len(b)))
           IN IF ~okc \/ ~rest.some THEN None
              ELSE Some(<<c>> \o rest.val)

----------------------------------------------------------------------------
(* get_local_interfaces_ips *)

\* A line of the listing is the list of its whitespace-separated parts; a
\* part is the list of its '/'-separated pieces; a piece is an address (four
\* octets) or other text (code points).
\* out = [ok |-> the command succeeded, lines |-> its output lines]
\* as ParseLines, but the first word of every line is taken
RECURSIVE ParseLines_TakeFirst(_)
ParseLines_TakeFirst(lines) ==
    IF lines = <<>> THEN <<>>
    ELSE LET parts == Head(lines)
         IN IF Len(parts) >= 1
            THEN <<parts[1][1]>> \o ParseLines_TakeFirst(Tail(lines))
            ELSE ParseLines_TakeFirst(Tail(lines))

\* as ParseLines, but an address that comes again on a later line is dropped
RECURSIVE ParseLines_Dedup(_)
ParseLines_Dedup(lines) ==
    IF lines = <<>> THEN <<>>
    ELSE LET parts == Head(lines)
             rest == ParseLines_Dedup(Tail(lines))
         IN IF Len(parts) >= 2 /\ \A i \in 1..Len(rest) : rest[i] # parts[2][1]
            THEN <<parts[2][1]>> \o rest
            ELSE rest

RECURSIVE ParseLines(_)
ParseLines(lines) ==
    IF lines = <<>> THEN <<>>
    ELSE LET parts == Head(lines)
         IN IF Len(parts) >= 2
            THEN <<parts[2][1]>> \o ParseLines(Tail(lines))
            ELSE ParseLines(Tail(lines))

get_local_interfaces_ips(out) == IF out.ok THEN ParseLines(out.lines) ELSE <<>>

----------------------------------------------------------------------------
(* create_pong_packet *)

\* as PongTime, but always the time of the relay's own probe
PongTime_Zero(ping_payload) == ToBytes(0, 8)

\* as PongTime, but a short payload's bytes are kept and padded with zeros
PongTime_Padded(ping_payload) ==
    LET t == Slice(ping_payload, 1, 9)
    IN t \o SubSeq(ToBytes(0, 8), 1, 8 - Len(t))

\* lines 49-52: the Ping ID (Time) field of the pong
PongTime(ping_payload) ==
    IF Len(ping_payload) >= 9 THEN Slice(ping_payload, 1, 9) ELSE ToBytes(0, 8)

\* line 66: the generic MOTD
GenericMotd(server_guid, server_port) ==
    <<77, 67, 80, 69, 59, 66, 101, 100, 114, 111, 99, 107, 32, 83, 101, 114,
      118, 101, 114, 59, 53, 56, 57, 59, 49, 46, 50, 48, 46, 48, 59, 48, 59,
      49, 48, 59>>
    \o Str(server_guid)
    \o <<59, 66, 101, 100, 114, 111, 99, 107, 32, 76, 101, 118, 101, 108, 59,
         83, 117, 114, 118, 105, 118, 97, 108, 59, 49, 59>>
    \o Str(server_port) \o <<59>> \o Str(server_port + 1) \o <<59>>

\* as PongMotd, without the generic MOTD
PongMotd_NoGeneric(motd, server_guid, server_port) == motd.val

\* lines 64-66: the MOTD that is encoded
PongMotd(motd, server_guid, server_port) ==
    IF ~Truthy(motd) THEN GenericMotd(server_guid, server_port) ELSE motd.val

\* as LengthField, but the characters of the string are counted
LengthField_Chars(motd_str, motd_bytes) == ToBytes(Len(motd_str), 2)

\* line 69: len(motd_bytes).to_bytes(2, byteorder='big')
LengthField(motd_str, motd_bytes) == ToBytes(Len(motd_bytes), 2)

\* The packet, or None when len(motd_bytes).to_bytes(2) raises OverflowError.
\* server_guid is the value random.getrandbits(64) returned.
create_pong_packet(ping_payload, motd, server_port, server_guid) ==
    LET motd_bytes == Utf8Encode(PongMotd(motd, server_guid, server_port))
    IN IF Len(motd_bytes) >= 65536 THEN None
       ELSE Some(<<UNCONNECTED_PONG_ID>>
                 \o PongTime(ping_payload)
                 \o ToBytes(server_guid, 8)
                 \o MAGIC
                 \o LengthField(PongMotd(motd, server_guid, server_port), motd_bytes)
                 \o motd_bytes)

----------------------------------------------------------------------------
(* query_local_server *)

\* lines 84-88: the ping sent to the backend
\* as ProbePing, but without the client id
ProbePing_NoClientId ==
    <<UNCONNECTED_PING_ID>> \o ToBytes(0, 8) \o MAGIC

ProbePing ==
    <<UNCONNECTED_PING_ID>> \o ToBytes(0, 8) \o MAGIC \o ToBytes(0, 8)

\* as ParsePong, but a reply that does not hold the length field and all the
\* bytes it declares gives None
ParsePong_Strict(reply) ==
    IF reply # <<>> /\ reply[1] = UNCONNECTED_PONG_ID /\ Len(reply) >= PONG_OFFSET + 2
       /\ Len(reply) >= PONG_OFFSET + 2 + FromBytes(Slice(reply, PONG_OFFSET, PONG_OFFSET + 2))
    THEN LET str_len == FromBytes(Slice(reply, PONG_OFFSET, PONG_OFFSET + 2))
         IN Utf8Decode(Slice(reply, PONG_OFFSET + 2, PONG_OFFSET + 2 + str_len))
    ELSE None

\* lines 95-101 and 103-104: the value returned for a received reply
ParsePong(reply) ==
    IF reply # <<>> /\ reply[1] = UNCONNECTED_PONG_ID /\ Len(reply) > PONG_OFFSET
    THEN LET str_len == FromBytes(Slice(reply, PONG_OFFSET, PONG_OFFSET + 2))
         IN Utf8Decode(Slice(reply, PONG_OFFSET + 2, PONG_OFFSET + 2 + str_len))
    ELSE None

----------------------------------------------------------------------------
(* main: the decisions of the receive loop *)

\* as IsUnconnectedPing, but the magic field is compared too
IsUnconnectedPing_Magic(d) ==
    d # <<>> /\ (d[1] = 1 \/ d[1] = 2) /\ Slice(d, 9, 25) = MAGIC

\* as IsUnconnectedPing, but any non-empty datagram is taken
IsUnconnectedPing_NonEmpty(d) == d # <<>> /\ Len(d) > 0

\* line 148
IsUnconnectedPing(d) == d # <<>> /\ Len(d) > 0 /\ (d[1] = 1 \/ d[1] = 2)

\* as IsOwnAddress, without the loopback test
IsOwnAddress_NoLoopback(client_ip, ips) ==
    \E i \in 1..Len(ips) : ips[i] = client_ip

\* line 152: client_ip in ips_to_announce or client_ip.startswith("127.")
IsOwnAddress(client_ip, ips) ==
    (\E i \in 1..Len(ips) : ips[i] = client_ip) \/ client_ip[1] = 127

\* as AfterLoopException, but the exception ends the loop
AfterLoopException_Exit == "done"

\* lines 186-187: an exception in the loop body is printed and the loop goes on
AfterLoopException == "recv"

\* lines 117-119 and 138-141: sys.exit(1)
AfterStartupFailure == "exit1"

\* as UsesResolver, but the interfaces are read whatever is configured
UsesResolver_Always(targets) == TRUE

\* line 113: the interfaces are read only when TARGET_IPS is empty
UsesResolver(targets) == targets = <<>>

\* as NoCandidates, but an empty list is let through
NoCandidates_Never(ips) == FALSE

\* line 117: if not ips_to_announce
NoCandidates(ips) == ips = <<>>

\* as ReplySource, but bound to the wildcard address
ReplySource_Wildcard(server_ip) == [ip |-> <<0, 0, 0, 0>>, port |-> BROADCAST_PORT]

\* line 172: the address reply_sock is bound to
ReplySource(server_ip) == [ip |-> server_ip, port |-> BROADCAST_PORT]

\* as AfterBindFailure, but the bind is tried again
AfterBindFailure_Retry == "bind"

\* lines 138-141: where main goes when listener.bind raises (sys.exit)
AfterBindFailure == "done"

\* as ListenerAfterBreak, but the listening socket is closed on the way out
ListenerAfterBreak_Closed(l) == "closed"

\* lines 183-185: the listening socket l when the loop is left by break
ListenerAfterBreak(l) == l

\* as ProbeSockAfter, but sock.close() is reached only after a reply
ProbeSockAfter_CloseOnReply(t) ==
    IF t = "socket_error" THEN "none"
    ELSE IF t = "reply" THEN "closed" ELSE "open"

\* lines 79 and 105-106: the probe socket when query_local_server ends with
\* outcome t
ProbeSockAfter(t) == IF t = "socket_error" THEN "none" ELSE "closed"

\* as ShouldReply, but a pong is built for every probed candidate
ShouldReply_Always(motd) == TRUE

\* line 160: if real_motd
ShouldReply(motd) == Truthy(motd)

\* as ListAfterDatagram, but the sender is remembered in the list
ListAfterDatagram_Append(ips, client_ip) == Append(ips, client_ip)

\* lines 145-181: ips_to_announce after a datagram from client_ip; the loop
\* only reads the list
ListAfterDatagram(ips, client_ip) == ips

----------------------------------------------------------------------------
(* Inputs: what the configuration, the host and the network can supply *)

IP1 == <<192, 168, 71, 200>>
IP2 == <<192, 168, 71, 201>>
IP3 == <<10, 0, 0, 5>>
LOOPBACK == <<127, 0, 0, 1>>
CLIENT == <<192, 168, 71, 50>>

\* values of TARGET_IPS: the shipped one (line 12) and a forced list
TargetConfigs == {<<>>, <<IP3>>}

\* "inet", "brd", "22" as text
INET == <<105, 110, 101, 116>>
BRD == <<98, 114, 100>>
P22 == <<50, 50>>

\* lines of "ip -4 addr show | grep ...": inet <address>/<prefix> brd, and a
\* line with a single part
IfLine(ip) == << <<INET>>, <<ip, P22>>, <<BRD>> >>
IfLines == {IfLine(IP1), IfLine(IP2), << <<INET>> >>}

SeqsUpTo(S, n) == UNION {[1..k -> S] : k \in 0..n}

\* the command has not run
NoOutput == [ok |-> FALSE, lines |-> <<>>]

\* results of the command: it raised, or it printed up to MaxIfLines lines
IfOutputs ==
    {[ok |-> FALSE, lines |-> <<>>]}
    \cup {[ok |-> TRUE, lines |-> l] : l \in SeqsUpTo(IfLines, MaxIfLines)}

TOKEN7 == <<0, 0, 0, 0, 0, 0, 0, 7>>
TOKENA == <<170, 187, 204, 221, 1, 2, 3, 4>>
BADMAGIC == <<0, 255, 255, 0, 254, 254, 254, 254, 253, 253, 253, 253, 18, 52, 86, 121>>

\* a client's ping: id, time, magic, client GUID
ClientPing(id, time, magic) == <<id>> \o time \o magic \o ToBytes(0, 8)

\* datagrams the listening socket can receive
Datagrams ==
    { ClientPing(1, TOKEN7, MAGIC),
      ClientPing(2, TOKENA, MAGIC),
      ClientPing(1, TOKENA, BADMAGIC),
      Slice(ClientPing(1, TOKENA, MAGIC), 0, 4),
      <<>>,
      ClientPing(28, TOKENA, MAGIC) }

\* ping payloads create_pong_packet is applied to on its own
Payloads ==
    Datagrams
    \cup { ClientPing(1, TOKENA, MAGIC),
           Slice(ClientPing(1, TOKENA, MAGIC), 0, 9),
           Slice(ClientPing(1, TOKENA, MAGIC), 0, 8),
           <<1>>,
           <<0, 1>> }

\* senders of those datagrams
Senders ==
    { [ip |-> IP1, port |-> 19132],
      [ip |-> LOOPBACK, port |-> 40000],
      [ip |-> CLIENT, port |-> 50000] }

\* status strings of backends: "Hi", "é" and ""
MOTD_HI == <<72, 105>>
MOTD_E == <<233>>
Motds == {MOTD_HI, MOTD_E, <<>>}

\* "MCPE;Hi;589;1.20.0;0;10;123;Level;Survival;1;19132;19133;"
MOTD_MCPE ==
    <<77, 67, 80, 69, 59, 72, 105, 59, 53, 56, 57, 59, 49, 46, 50, 48, 46, 48,
      59, 48, 59, 49, 48, 59, 49, 50, 51, 59, 76, 101, 118, 101, 108, 59, 83,
      117, 114, 118, 105, 118, 97, 108, 59, 49, 59, 49, 57, 49, 51, 50, 59,
      49, 57, 49, 51, 51, 59>>

\* status strings create_pong_packet is applied to on its own: those, the
\* long one, and strings with characters of three and four UTF-8 bytes
CodecMotds == Motds \cup {MOTD_MCPE, <<72, 8364>>, <<128512, 105>>}

\* values of random.getrandbits(64) (the model's integers stop at 2^31 - 1)
Guids == {0, 16909060}

\* a backend's pong: header, declared length, string bytes
BackendPong(declared, bytes) ==
    <<UNCONNECTED_PONG_ID>> \o ToBytes(0, 8) \o ToBytes(7, 8) \o MAGIC
    \o ToBytes(declared, 2) \o bytes

\* datagrams a probe socket can receive
BackendReplies ==
    { BackendPong(Len(Utf8Encode(m)), Utf8Encode(m)) : m \in Motds }
    \cup { BackendPong(5, Utf8Encode(MOTD_HI)),
           BackendPong(1, <<233>>),
           BackendPong(Len(MOTD_MCPE), MOTD_MCPE),
           Slice(BackendPong(2, Utf8Encode(MOTD_HI)), 0, 33),
           Slice(BackendPong(2, Utf8Encode(MOTD_HI)), 0, 34),
           ProbePing,
           <<>> }

\* what can happen to one call of query_local_server
ProbeOutcomes ==
    {[t |-> x, bytes |-> <<>>] : x \in {"socket_error", "send_error", "timeout"}}
    \cup {[t |-> "reply", bytes |-> r] : r \in BackendReplies}

\* what can happen to one reply attempt (lines 167-175)
ReplyOutcomes == {"ok", "socket_error", "bind_error", "send_error"}

\* what can happen to the creation and bind of the listener (lines 125-136)
BindOutcomes == {"ok", "socket_error", "bind_error"}

----------------------------------------------------------------------------
(* bedrock_addon_installer.py: the world files *)

\* the two pack types (PackRef.which)
Types == {"behavior", "resource"}

\* a path that does not exist
Absent == [exists |-> FALSE, fmt |-> "none", kind |-> "none", val |-> <<>>]

\* an existing file: fmt is its raw formatting ("indent4" as dump_json
\* writes, "other" for any other text), kind is what json.load makes of it:
\* "invalid" (it raises), "object" (a JSON value that is no list) or "list"
File(fmt, k, val) == [exists |-> TRUE, fmt |-> fmt, kind |-> k, val |-> val]

\* a PackRef (lines 198-203)
PackRef(which, name, pack_id, version) ==
    [which |-> which, name |-> name, pack_id |-> pack_id, version |-> version]

\* an item of a JSON list: a dict or something else; pack_id "" stands for a
\* dict without a str pack_id
Item(dict, pack_id, version) == [dict |-> dict, pack_id |-> pack_id, version |-> version]

\* lines 408 and 436: {"pack_id": ref.pack_id, "version": ref.version}
Entry(ref) == Item(TRUE, ref.pack_id, ref.version)

\* lines 211-213: dump_json(path, data), for a list
dump_json(list) == File("indent4", "list", list)

\* lines 216-221: safe_backup(path, suffix); the content of the backup file
\* after the call, bak being its content before
safe_backup(f, bak) == IF f.exists THEN f ELSE bak

\* as LoadList, but a JSON value that is no list counts as the empty list
LoadList_Lenient(f) == [ok |-> f.kind \in {"list", "object"}, val |-> f.val]

\* lines 388-392 and 423-427: load_json(path), then isinstance(data, list);
\* ok is FALSE when either raises
LoadList(f) == [ok |-> f.kind = "list", val |-> f.val]

\* as PrewriteBackup, but the copy is made after the write
PrewriteBackup_AfterWrite(before, after, bak) == safe_backup(after, bak)

\* lines 413 and 440: safe_backup(path, ".prewrite.bak") before dump_json
PrewriteBackup(before, after, bak) == safe_backup(before, bak)

\* lines 400-403: the pack_ids update_world_json takes as present
SeenIds(existing) ==
    {existing[i].pack_id :
        i \in {j \in 1..Len(existing) : existing[j].dict /\ existing[j].pack_id # ""}}

\* as MergeRefs, but every ref is appended
MergeRefs_AppendAll(existing, new_refs) ==
    existing \o [i \in 1..Len(new_refs) |-> Entry(new_refs[i])]

\* lines 405-411: the refs whose pack_id is not yet seen are appended
RECURSIVE MergeRefs(_, _)
MergeRefs(existing, new_refs) ==
    IF new_refs = <<>> THEN existing
    ELSE LET ref == Head(new_refs)
         IN IF ref.pack_id \notin SeenIds(existing)
            THEN MergeRefs(Append(existing, Entry(ref)), Tail(new_refs))
            ELSE MergeRefs(existing, Tail(new_refs))

\* lines 433-436: set_active(..., active=True) on the loaded list
Activate(list, ref) ==
    LET seen == {list[i].pack_id : i \in {j \in 1..Len(list) : list[j].dict}}
    IN IF ref.pack_id \notin seen THEN Append(list, Entry(ref)) ELSE list

\* as Deactivate, but only the first entry of the pack is removed
Deactivate_First(list, ref) ==
    LET hits == {i \in 1..Len(list) : list[i].dict /\ list[i].pack_id = ref.pack_id}
    IN IF hits = {} THEN list
       ELSE LET i == CHOOSE h \in hits : \A g \in hits : h <= g
            IN SubSeq(list, 1, i - 1) \o SubSeq(list, i + 1, Len(list))

\* lines 437-438: set_active(..., active=False) on the loaded list
Deactivate(list, ref) ==
    LET Keep(item) == ~(item.dict /\ item.pack_id = ref.pack_id)
    IN SelectSeq(list, Keep)

\* The outcome of a call on the world files: whether it raised, and the
\* files after it.
Outcome(raised, file, pre, inv) ==
    [raised |-> raised, file |-> file, pre |-> pre, inv |-> inv]

\* lines 387-398 and 422-431: an existing file that does not load as a list
\* is copied to .invalid.bak and the call raises RuntimeError
RaiseInvalid(w, file, pre, inv) ==
    Outcome(TRUE, file, pre, [inv EXCEPT ![w] = safe_backup(file[w], inv[w])])

\* lines 413-414 and 440-441: the backup, then the write
WriteList(w, list, file, pre, inv) ==
    Outcome(FALSE,
            [file EXCEPT ![w] = dump_json(list)],
            [pre EXCEPT ![w] = PrewriteBackup(file[w], dump_json(list), pre[w])],
            inv)

\* lines 383-415: update_world_json(world_dir, which, new_refs)
update_world_json(which, new_refs, file, pre, inv) ==
    LET f == file[which]
    IN IF f.exists /\ ~LoadList(f).ok
       THEN RaiseInvalid(which, file, pre, inv)
       ELSE LET existing == IF f.exists THEN LoadList(f).val ELSE <<>>
            IN WriteList(which, MergeRefs(existing, new_refs), file, pre, inv)

\* lines 418-441: set_active(world_dir, ref, active)
set_active(ref, active, file, pre, inv) ==
    LET f == file[ref.which]
    IN IF f.exists /\ ~LoadList(f).ok
       THEN RaiseInvalid(ref.which, file, pre, inv)
       ELSE LET list == IF f.exists THEN LoadList(f).val ELSE <<>>
            IN WriteList(ref.which,
                         IF active THEN Activate(list, ref) ELSE Deactivate(list, ref),
                         file, pre, inv)

\* lines 375-379: the active pack_ids of one world file; a JSON value that
\* is no list has none
ActiveIds(f) == IF f.exists /\ f.kind = "list" THEN SeenIds(f.val) ELSE {}

\* lines 369-380: load_active_ids(world_dir); load_json is called outside any
\* try, so a file that is not valid JSON makes the call raise
load_active_ids(file) ==
    [raised |-> \E w \in Types : file[w].exists /\ file[w].kind = "invalid",
     ids |-> [w \in Types |-> ActiveIds(file[w])]]

\* lines 811-813: the pack_ids of the selected packs of one type
SelectedIds(selected, which) ==
    {p.pack_id : p \in {q \in selected : q.which = which}}

\* lines 827 and 834: next((p for p in installed_all if p.which == which and
\* p.pack_id == pid), None)
FindRef(installed_all, which, pid) ==
    LET m == {i \in 1..Len(installed_all) :
                installed_all[i].which = which /\ installed_all[i].pack_id = pid}
    IN IF m = {} THEN None
       ELSE Some(installed_all[CHOOSE i \in m : \A j \in m : i <= j])

\* the orders in which a for loop can go over a Python set or a directory
Orders(S) ==
    {s \in [1..Cardinality(S) -> S] : \A i, j \in 1..Cardinality(S) : i # j => s[i] # s[j]}

\* lines 444-459: scan_installed(server_dir): the packs of behavior_packs/
\* in the order of iterdir(), then those of resource_packs/
scan_installed(dirs) ==
    {b \o r : b \in Orders({p \in dirs : p.which = "behavior"}),
              r \in Orders({p \in dirs : p.which = "resource"})}

\* lines 826-837: the calls of set_active one loop makes, going over the
\* pack_ids in the given order; a pack_id without an installed ref is skipped
CallsOf(order, which, installed_all, active) ==
    LET Found(pid) == FindRef(installed_all, which, pid).some
        found == SelectSeq(order, Found)
    IN [i \in 1..Len(found) |->
          [ref |-> FindRef(installed_all, which, found[i]).val, active |-> active]]

\* the calls are made one after the other; the first that raises ends them
RECURSIVE ApplyCalls(_, _)
ApplyCalls(calls, o) ==
    IF calls = <<>> \/ o.raised THEN o
    ELSE ApplyCalls(Tail(calls),
                    set_active(Head(calls).ref, Head(calls).active, o.file, o.pre, o.inv))

\* lines 805-839: _batch_set_active(world_dir, installed_all, selected); the
\* outcomes it can have, one for every order of the loops over the sets
batch_set_active(installed_all, selected, file, pre, inv) ==
    LET active == load_active_ids(file)
        ToEnable(w) == SelectedIds(selected, w) \ active.ids[w]
        ToDisable(w) == active.ids[w] \ SelectedIds(selected, w)
        Calls(w) == {CallsOf(e, w, installed_all, TRUE) \o CallsOf(d, w, installed_all, FALSE) :
                        e \in Orders(ToEnable(w)), d \in Orders(ToDisable(w))}
    IN IF active.raised
       THEN {Outcome(TRUE, file, pre, inv)}
       ELSE {ApplyCalls(b \o r, Outcome(FALSE, file, pre, inv)) :
                b \in Calls("behavior"), r \in Calls("resource")}

\* packs in behavior_packs/ and resource_packs/ (scan_installed, lines 444-459)
\* as FoldersAfterAbort, but the folder is deleted before the world file is
\* read
FoldersAfterAbort_Deleted(dirs, ref) == dirs \ {ref}

\* lines 773-776: set_active raised, delete_pack is left before line 776
FoldersAfterAbort(dirs, ref) == dirs

\* lines 778-785: the pack folders after the deletion step, rm being how
\* rmtree ends when the folder exists
FoldersAfterRm(dirs, ref, rm) ==
    IF ref \in dirs /\ rm = "ok" THEN dirs \ {ref} ELSE dirs

\* lines 778-785: what the deletion step did
RmResult(dirs, ref, rm) == IF ref \in dirs THEN rm ELSE "missing"

REF_A == PackRef("behavior", "addon_a_bp", "A", 1)
REF_R == PackRef("resource", "addon_a_rp", "R", 1)
REF_B == PackRef("behavior", "addon_b_bp", "B", 1)
Installed == {REF_A, REF_R}

\* a list item that is no dict
JUNK == Item(FALSE, "", 0)

\* items of a world file at the start: the entry of the installed pack A, an
\* entry of pack A with another version, an entry of a pack that is not
\* installed, and an item that is no dict
Items == {Entry(REF_A), Item(TRUE, "A", 2), Item(TRUE, "X", 1), JUNK}

\* world files at the start, written by the server or by hand
NotJson == File("other", "invalid", <<>>)
NotList == File("other", "object", <<>>)
BehaviorFiles ==
    {Absent, NotJson, NotList}
    \cup {File("other", "list", l) : l \in SeqsUpTo(Items, MaxItems)}
ResourceFiles ==
    {Absent, NotJson,
     File("other", "list", <<>>),
     File("other", "list", <<Entry(REF_R)>>),
     File("other", "list", <<Item(TRUE, "X", 1)>>)}

\* the refs update_world_json is called with (lines 542-544, 699-701)
NewRefs(which) ==
    IF which = "behavior"
    THEN {<<>>, <<REF_A>>, <<REF_A, REF_A>>, <<REF_B, REF_A, REF_B>>}
    ELSE {<<>>, <<REF_R>>}

\* how shutil.rmtree of line 780 can end
RmOutcomes == {"ok", "error"}

\* no call on the world files yet
NoOp == [name |-> "none", which |-> "none", pack_id |-> "", active |-> FALSE,
         refs |-> <<>>, selected |-> {}, raised |-> FALSE, rm |-> "none"]

\* the relay has no world files
NoWorld ==
    /\ world_file = [w \in Types |-> Absent]
    /\ prewrite_bak = [w \in Types |-> Absent]
    /\ invalid_bak = [w \in Types |-> Absent]
    /\ folders = {}
    /\ last_op = NoOp

----------------------------------------------------------------------------
(* main *)

\* what a datagram is, for the history variables kind and prev
Category(d) ==
    IF d = <<>> THEN "empty"
    ELSE IF ~IsUnconnectedPing(d) THEN "other"
    ELSE IF Len(d) < 33 THEN "truncated"
    ELSE IF Slice(d, 9, 25) # MAGIC THEN "badmagic"
    ELSE "ping"

NoDatagram == [src_ip |-> <<0, 0, 0, 0>>, src_port |-> 0,
               dst |-> [ip |-> <<0, 0, 0, 0>>, port |-> 0], payload |-> <<>>]

Init ==
    /\ pc = "start"
    /\ status = "running"
    /\ signal = FALSE
    /\ target_ips \in TargetConfigs
    /\ resolver_calls = 0
    /\ if_out = NoOutput
    /\ ips_to_announce = <<>>
    /\ listener = "none"
    /\ data = <<>>
    /\ addr = [ip |-> <<0, 0, 0, 0>>, port |-> 0]
    /\ idx = 0
    /\ real_motd = None
    /\ pong = <<>>
    /\ probe_sock = "none"
    /\ reply_sock = "none"
    /\ nprobes = 0
    /\ last_probe = NoDatagram
    /\ nanswered = 0
    /\ ans_idx = 0
    /\ nfailed = 0
    /\ nsent = 0
    /\ last_sent = NoDatagram
    /\ kind = "none"
    /\ prev = "none"
    /\ NoWorld

\* the process ends
Terminate(how) ==
    /\ pc' = "done"
    /\ status' = how

\* lines 111-121
Start ==
    /\ pc = "start"
    /\ \E out \in IfOutputs :
         LET ips == IF UsesResolver(target_ips)
                    THEN get_local_interfaces_ips(out)
                    ELSE target_ips
         IN /\ ips_to_announce' = ips
            /\ resolver_calls' = IF UsesResolver(target_ips)
                                 THEN resolver_calls + 1
                                 ELSE resolver_calls
            /\ if_out' = IF UsesResolver(target_ips) THEN out ELSE if_out
            /\ IF NoCandidates(ips)
               THEN Terminate(AfterStartupFailure)
               ELSE pc' = "bind" /\ status' = status
    /\ UNCHANGED <<signal, target_ips, listener, data, addr, idx, real_motd,
                   pong, probe_sock, reply_sock, nprobes, last_probe,
                   nanswered, ans_idx, nfailed, nsent, last_sent, kind, prev>>
    /\ UNCHANGED world_vars

\* lines 125-141
Bind ==
    /\ pc = "bind"
    /\ \E o \in BindOutcomes :
         CASE o = "ok" ->
                /\ listener' = "bound"
                /\ pc' = "recv"
                /\ status' = status
           [] o = "socket_error" ->
                \* socket() or setsockopt(SO_REUSEADDR) raises outside any try
                /\ listener' = listener
                /\ Terminate("crashed")
           [] o = "bind_error" ->
                /\ listener' = "open"
                /\ pc' = AfterBindFailure
                /\ status' = IF AfterBindFailure = "done"
                              THEN AfterStartupFailure ELSE status
    /\ UNCHANGED <<signal, target_ips, resolver_calls, if_out, ips_to_announce, data,
                   addr, idx, real_motd, pong, probe_sock, reply_sock, nprobes,
                   last_probe, nanswered, ans_idx, nfailed, nsent, last_sent,
                   kind, prev>>
    /\ UNCHANGED world_vars

\* a new datagram: nothing has been done for it yet
NewRound ==
    /\ real_motd' = None
    /\ nprobes' = 0
    /\ last_probe' = NoDatagram
    /\ nanswered' = 0
    /\ ans_idx' = 0
    /\ nfailed' = 0
    /\ nsent' = 0
    /\ last_sent' = NoDatagram

\* lines 145-156: one datagram arrives and is classified
Recv ==
    /\ pc = "recv"
    /\ \E d \in Datagrams, a \in Senders :
         /\ data' = d
         /\ addr' = a
         /\ ips_to_announce' = ListAfterDatagram(ips_to_announce, a.ip)
         /\ prev' = kind
         /\ kind' = Category(d)
         /\ IF IsUnconnectedPing(d) /\ ~IsOwnAddress(a.ip, ips_to_announce)
               /\ ips_to_announce # <<>>
            THEN pc' = "probe" /\ idx' = 1
            ELSE pc' = "recv" /\ idx' = 0
    /\ NewRound
    /\ UNCHANGED <<status, signal, target_ips, resolver_calls, if_out,
                   listener, pong, probe_sock, reply_sock>>
    /\ UNCHANGED world_vars

\* as LoopException, but the exception is not caught
LoopException_Reraise ==
    /\ kind' = "exception"
    /\ pc' = "done"
    /\ status' = "crashed"
    /\ idx' = 0

\* an exception leaves the loop body (lines 186-187)
LoopException ==
    /\ kind' = "exception"
    /\ pc' = AfterLoopException
    /\ status' = IF AfterLoopException = "recv" THEN status ELSE "crashed"
    /\ idx' = 0

\* as RecvError, but the listening socket is given up and main starts over
RecvError_Rebind ==
    /\ pc = "recv"
    /\ prev' = kind
    /\ kind' = "exception"
    /\ pc' = "start"
    /\ listener' = "none"
    /\ idx' = 0
    /\ NewRound
    /\ UNCHANGED <<status, signal, target_ips, resolver_calls, if_out,
                   ips_to_announce, data, addr, pong, probe_sock, reply_sock>>
    /\ UNCHANGED world_vars

\* lines 145 and 186-187: recvfrom raises
RecvError ==
    /\ pc = "recv"
    /\ prev' = kind
    /\ LoopException
    /\ NewRound
    /\ UNCHANGED <<signal, target_ips, resolver_calls, if_out, ips_to_announce,
                   listener, data, addr, pong, probe_sock, reply_sock>>
    /\ UNCHANGED world_vars

\* as NextCandidate, but the same candidate is probed again
NextCandidate_Again(i) == pc' = "probe" /\ idx' = i

\* the for loop of line 156 moves on from candidate i
NextCandidate(i) ==
    IF i < Len(ips_to_announce)
    THEN pc' = "probe" /\ idx' = i + 1
    ELSE pc' = "recv" /\ idx' = 0

\* lines 158-160: query_local_server(server_ip, 19132), lines 74-108
Probe ==
    /\ pc = "probe"
    /\ nprobes' = nprobes + 1
    /\ \E o \in ProbeOutcomes :
         LET server_ip == ips_to_announce[idx]
             probe(pkt) == [src_ip |-> <<0, 0, 0, 0>>, src_port |-> 0,
                            dst |-> [ip |-> server_ip, port |-> 19132],
                            payload |-> pkt]
         IN CASE o.t = "socket_error" ->
                   \* line 79 is outside the try: the exception reaches main
                   /\ probe_sock' = ProbeSockAfter(o.t)
                   /\ real_motd' = real_motd
                   /\ last_probe' = NoDatagram
                   /\ LoopException
                   /\ UNCHANGED <<nanswered, ans_idx>>
              [] o.t = "send_error" ->
                   /\ probe_sock' = ProbeSockAfter(o.t)
                   /\ real_motd' = None
                   /\ last_probe' = NoDatagram
                   /\ NextCandidate(idx)
                   /\ UNCHANGED <<kind, status, nanswered, ans_idx>>
              [] o.t = "timeout" ->
                   /\ probe_sock' = ProbeSockAfter(o.t)
                   /\ real_motd' = None
                   /\ last_probe' = probe(ProbePing)
                   /\ NextCandidate(idx)
                   /\ UNCHANGED <<kind, status, nanswered, ans_idx>>
              [] o.t = "reply" ->
                   LET motd == ParsePong(o.bytes)
                   IN /\ probe_sock' = ProbeSockAfter(o.t)
                      /\ real_motd' = motd
                      /\ last_probe' = probe(ProbePing)
                      /\ IF ShouldReply(motd)
                         THEN pc' = "reply" /\ idx' = idx
                         ELSE NextCandidate(idx)
                      /\ IF Truthy(motd)
                         THEN nanswered' = nanswered + 1 /\ ans_idx' = idx
                         ELSE UNCHANGED <<nanswered, ans_idx>>
                      /\ UNCHANGED <<kind, status>>
    /\ UNCHANGED <<signal, target_ips, resolver_calls, if_out, ips_to_announce,
                   listener, data, addr, pong, reply_sock, nfailed, nsent,
                   last_sent, prev>>
    /\ UNCHANGED world_vars

\* as AfterReplyFailure, but the exception ends the for loop
AfterReplyFailure_Abort(i) == pc' = "recv" /\ idx' = 0

\* lines 179-181: the exception of a reply attempt is printed and the for
\* loop moves on from candidate i
AfterReplyFailure(i) == NextCandidate(i)

\* lines 160-181: build the pong and send it from (server_ip, 19132)
Reply ==
    /\ pc = "reply"
    /\ \E server_guid \in Guids, o \in ReplyOutcomes :
         LET server_ip == ips_to_announce[idx]
             p == create_pong_packet(data, real_motd, 19132, server_guid)
         IN IF ~p.some
            THEN \* create_pong_packet raised: lines 186-187
                 /\ LoopException
                 /\ UNCHANGED <<reply_sock, nfailed, nsent, last_sent>>
            ELSE /\ IF o = "ok" THEN NextCandidate(idx) ELSE AfterReplyFailure(idx)
                 /\ UNCHANGED <<kind, status>>
                 /\ CASE o = "ok" ->
                           /\ last_sent' = [src_ip |-> ReplySource(server_ip).ip,
                                            src_port |-> ReplySource(server_ip).port,
                                            dst |-> addr,
                                            payload |-> p.val]
                           /\ nsent' = nsent + 1
                           /\ reply_sock' = "closed"
                           /\ UNCHANGED nfailed
                      [] o = "socket_error" ->
                           \* reply_sock still names the socket of an earlier attempt
                           /\ nfailed' = nfailed + 1
                           /\ UNCHANGED <<nsent, last_sent, reply_sock>>
                      [] o \in {"bind_error", "send_error"} ->
                           \* line 175 is skipped
                           /\ nfailed' = nfailed + 1
                           /\ reply_sock' = "open"
                           /\ UNCHANGED <<nsent, last_sent>>
    /\ UNCHANGED <<signal, target_ips, resolver_calls, if_out, ips_to_announce,
                   listener, data, addr, real_motd, pong, probe_sock, nprobes,
                   last_probe, nanswered, ans_idx, prev>>
    /\ UNCHANGED world_vars

\* KeyboardInterrupt before the loop (lines 111-141): nothing catches it
InterruptStartup ==
    /\ pc \in {"start", "bind"}
    /\ signal' = TRUE
    /\ Terminate("killed")
    /\ UNCHANGED <<target_ips, resolver_calls, if_out, ips_to_announce, listener, data,
                   addr, idx, real_motd, pong, probe_sock, reply_sock, nprobes,
                   last_probe, nanswered, ans_idx, nfailed, nsent, last_sent,
                   kind, prev>>
    /\ UNCHANGED world_vars

\* KeyboardInterrupt in the loop (lines 183-185): break, main returns
InterruptLoop ==
    /\ pc \in {"recv", "probe", "reply"}
    /\ signal' = TRUE
    /\ Terminate("returned")
    /\ listener' = ListenerAfterBreak(listener)
    /\ CASE pc = "recv" -> UNCHANGED <<probe_sock, reply_sock>>
         [] pc = "probe" ->
              \* before line 79, between lines 79 and 82, or inside the try
              /\ probe_sock' \in {"none", "open", "closed"}
              /\ UNCHANGED reply_sock
         [] pc = "reply" ->
              \* anywhere in lines 160-175; no finally closes reply_sock
              /\ reply_sock' \in {reply_sock, "open", "closed"}
              /\ UNCHANGED probe_sock
    /\ UNCHANGED <<target_ips, resolver_calls, if_out, ips_to_announce, data,
                   addr, idx, real_motd, pong, nprobes, last_probe, nanswered,
                   ans_idx, nfailed, nsent, last_sent, kind, prev>>
    /\ UNCHANGED world_vars

Next ==
    \/ Start
    \/ Bind
    \/ Recv
    \/ RecvError
    \/ Probe
    \/ Reply
    \/ InterruptStartup
    \/ InterruptLoop

Spec == Init /\ [][Next]_vars

TypeOK ==
    /\ pc \in {"start", "bind", "recv", "probe", "reply", "done"}
    /\ status \in {"running", "exit1", "returned", "killed", "crashed"}
    /\ listener \in {"none", "open", "bound"}
    /\ probe_sock \in {"none", "open", "closed"}
    /\ reply_sock \in {"none", "open", "closed"}
    /\ idx \in 0..Len(ips_to_announce)

----------------------------------------------------------------------------
(* create_pong_packet applied on its own *)

InitCodec ==
    /\ pc = "codec"
    /\ status = "running"
    /\ signal = FALSE
    /\ target_ips = <<>>
    /\ resolver_calls = 0
    /\ if_out = NoOutput
    /\ ips_to_announce = <<>>
    /\ listener = "none"
    /\ data \in Payloads
    /\ addr = [ip |-> <<0, 0, 0, 0>>, port |-> 0]
    /\ idx = 0
    /\ real_motd \in {Some(m) : m \in CodecMotds}
    /\ pong = <<>>
    /\ probe_sock = "none"
    /\ reply_sock = "none"
    /\ nprobes = 0
    /\ last_probe = NoDatagram
    /\ nanswered = 0
    /\ ans_idx = 0
    /\ nfailed = 0
    /\ nsent = 0
    /\ last_sent = NoDatagram
    /\ kind = "none"
    /\ prev = "none"
    /\ NoWorld

\* pong = create_pong_packet(data, real_motd), lines 38-72
CreatePong ==
    /\ pc = "codec"
    /\ \E server_guid \in Guids :
         LET p == create_pong_packet(data, real_motd, 19132, server_guid)
         IN /\ pong' = p.val
            /\ kind' = IF p.some THEN kind ELSE "exception"
    /\ pc' = "codec_done"
    /\ UNCHANGED <<status, signal, target_ips, resolver_calls, if_out, ips_to_announce,
                   listener, data, addr, idx, real_motd, probe_sock,
                   reply_sock, nprobes, last_probe, nanswered, ans_idx,
                   nfailed, nsent, last_sent, prev>>
    /\ UNCHANGED world_vars

NextCodec == CreatePong

SpecCodec == InitCodec /\ [][NextCodec]_vars

----------------------------------------------------------------------------
(* The installer's calls on the world files, in any order *)

InitWorld ==
    /\ pc = "world"
    /\ status = "running"
    /\ signal = FALSE
    /\ target_ips = <<>>
    /\ resolver_calls = 0
    /\ if_out = NoOutput
    /\ ips_to_announce = <<>>
    /\ listener = "none"
    /\ data = <<>>
    /\ addr = [ip |-> <<0, 0, 0, 0>>, port |-> 0]
    /\ idx = 0
    /\ real_motd = None
    /\ pong = <<>>
    /\ probe_sock = "none"
    /\ reply_sock = "none"
    /\ nprobes = 0
    /\ last_probe = NoDatagram
    /\ nanswered = 0
    /\ ans_idx = 0
    /\ nfailed = 0
    /\ nsent = 0
    /\ last_sent = NoDatagram
    /\ kind = "none"
    /\ prev = "none"
    /\ world_file \in {[w \in Types |-> IF w = "behavior" THEN b ELSE r] :
                          b \in BehaviorFiles, r \in ResourceFiles}
    /\ prewrite_bak = [w \in Types |-> Absent]
    /\ invalid_bak = [w \in Types |-> Absent]
    /\ folders = Installed
    /\ last_op = NoOp

\* the files after a call are those of its outcome
Becomes(o) ==
    /\ world_file' = o.file
    /\ prewrite_bak' = o.pre
    /\ invalid_bak' = o.inv

\* update_world_json(world_dir, which, new_refs), lines 383-415
UpdateWorldJson ==
    /\ pc = "world"
    /\ \E which \in Types :
         \E new_refs \in NewRefs(which) :
            LET o == update_world_json(which, new_refs, world_file, prewrite_bak, invalid_bak)
            IN /\ Becomes(o)
               /\ last_op' = [name |-> "update_world_json", which |-> which,
                              pack_id |-> "", active |-> TRUE,
                              refs |-> new_refs, selected |-> {},
                              raised |-> o.raised, rm |-> "none"]
    /\ UNCHANGED <<folders, relay_vars>>

\* set_active(world_dir, ref, active), lines 418-441
SetActive ==
    /\ pc = "world"
    /\ \E ref \in folders, active \in BOOLEAN :
         LET o == set_active(ref, active, world_file, prewrite_bak, invalid_bak)
         IN /\ Becomes(o)
            /\ last_op' = [name |-> "set_active", which |-> ref.which,
                           pack_id |-> ref.pack_id, active |-> active,
                           refs |-> <<>>, selected |-> {},
                           raised |-> o.raised, rm |-> "none"]
    /\ UNCHANGED <<folders, relay_vars>>

\* _batch_set_active(world_dir, installed_all, selected), lines 805-839, with
\* installed_all = scan_installed(server_dir)
BatchSetActive ==
    /\ pc = "world"
    /\ \E installed_all \in scan_installed(folders), selected \in SUBSET folders :
         \E o \in batch_set_active(installed_all, selected, world_file,
                                   prewrite_bak, invalid_bak) :
            /\ Becomes(o)
            /\ last_op' = [name |-> "batch_set_active", which |-> "both",
                           pack_id |-> "", active |-> TRUE,
                           refs |-> <<>>, selected |-> selected,
                           raised |-> o.raised, rm |-> "none"]
    /\ UNCHANGED <<folders, relay_vars>>

\* delete_pack(server_dir, world_dir, pack_ref), lines 769-785
DeletePack ==
    /\ pc = "world"
    /\ \E ref \in Installed, rm \in RmOutcomes :
         LET o == set_active(ref, FALSE, world_file, prewrite_bak, invalid_bak)
         IN /\ Becomes(o)
            /\ folders' = IF o.raised THEN FoldersAfterAbort(folders, ref)
                          ELSE FoldersAfterRm(folders, ref, rm)
            /\ last_op' = [name |-> "delete_pack", which |-> ref.which,
                           pack_id |-> ref.pack_id, active |-> FALSE,
                           refs |-> <<>>, selected |-> {},
                           raised |-> o.raised,
                           rm |-> IF o.raised THEN "none"
                                  ELSE RmResult(folders, ref, rm)]
    /\ UNCHANGED relay_vars

NextWorld ==
    \/ UpdateWorldJson
    \/ SetActive
    \/ BatchSetActive

SpecWorld == InitWorld /\ [][NextWorld]_vars

\* Packs are activated, deactivated and deleted
NextDelete ==
    \/ SetActive
    \/ DeletePack

SpecDelete == InitWorld /\ [][NextDelete]_vars

----------------------------------------------------------------------------
(* The handling of one datagram, without a cancellation signal *)

\* main has resolved its candidates and bound the listener (lines 111-141)
InitRound ==
    /\ pc = "recv"
    /\ status = "running"
    /\ signal = FALSE
    /\ target_ips \in TargetConfigs
    /\ \E out \in IfOutputs :
         /\ if_out = IF target_ips = <<>> THEN out ELSE NoOutput
         /\ ips_to_announce = IF target_ips = <<>>
                              THEN get_local_interfaces_ips(out)
                              ELSE target_ips
    /\ ~NoCandidates(ips_to_announce)
    /\ resolver_calls = IF target_ips = <<>> THEN 1 ELSE 0
    /\ listener = "bound"
    /\ data = <<>>
    /\ addr = [ip |-> <<0, 0, 0, 0>>, port |-> 0]
    /\ idx = 0
    /\ real_motd = None
    /\ pong = <<>>
    /\ probe_sock = "none"
    /\ reply_sock = "none"
    /\ nprobes = 0
    /\ last_probe = NoDatagram
    /\ nanswered = 0
    /\ ans_idx = 0
    /\ nfailed = 0
    /\ nsent = 0
    /\ last_sent = NoDatagram
    /\ kind = "none"
    /\ prev = "none"
    /\ NoWorld

\* the first datagram of the session arrives
RecvFirst == kind = "none" /\ Recv

NextRound ==
    \/ RecvFirst
    \/ Probe
    \/ Reply

\* A probe ends within its timeout (settimeout(0.2), line 80) and a reply
\* attempt does not block, so neither step is postponed forever.
SpecRound == InitRound /\ [][NextRound]_vars /\ WF_vars(Probe) /\ WF_vars(Reply)

----------------------------------------------------------------------------
(* The pong parser of query_local_server applied on its own *)

\* string bytes a reply can carry: "", "Hi", "é", a lone 0xE9, "Hé"
ReplyStrings == {<<>>, <<72, 105>>, <<195, 169>>, <<233>>, <<72, 195, 169>>}

\* length fields a reply can declare
DeclaredLengths == {0, 1, 2, 3, 5, 258}

\* lengths a reply can be cut to by the sender or by recvfrom
CutLengths == {0, 1, 33, 34, 35, 36, 40}

\* replies recvfrom(2048) can return (line 92): a pong or a ping header, any
\* declared length, any string bytes, whole or cut short
ParseReplies ==
    {Slice(<<id>> \o ToBytes(0, 8) \o ToBytes(7, 8) \o MAGIC \o ToBytes(l, 2) \o b, 0, n) :
        id \in {UNCONNECTED_PONG_ID, UNCONNECTED_PING_ID},
        l \in DeclaredLengths, b \in ReplyStrings, n \in CutLengths}

InitParse ==
    /\ pc = "parse"
    /\ status = "running"
    /\ signal = FALSE
    /\ target_ips = <<>>
    /\ resolver_calls = 0
    /\ if_out = NoOutput
    /\ ips_to_announce = <<>>
    /\ listener = "none"
    /\ data \in ParseReplies
    /\ addr = [ip |-> <<0, 0, 0, 0>>, port |-> 0]
    /\ idx = 0
    /\ real_motd = None
    /\ pong = <<>>
    /\ probe_sock = "open"
    /\ reply_sock = "none"
    /\ nprobes = 0
    /\ last_probe = NoDatagram
    /\ nanswered = 0
    /\ ans_idx = 0
    /\ nfailed = 0
    /\ nsent = 0
    /\ last_sent = NoDatagram
    /\ kind = "none"
    /\ prev = "none"
    /\ NoWorld

\* lines 95-108: the value query_local_server returns for the reply data
ParseReply ==
    /\ pc = "parse"
    /\ real_motd' = ParsePong(data)
    /\ probe_sock' = "closed"
    /\ pc' = "parse_done"
    /\ UNCHANGED <<status, signal, target_ips, resolver_calls, if_out,
                   ips_to_announce, listener, data, addr, idx, pong, reply_sock,
                   nprobes, last_probe, nanswered, ans_idx, nfailed, nsent,
                   last_sent, kind, prev>>
    /\ UNCHANGED world_vars

NextParse == ParseReply

SpecParse == InitParse /\ [][NextParse]_vars

----------------------------------------------------------------------------
(* Properties *)

Candidates == {ips_to_announce[i] : i \in 1..Len(ips_to_announce)}
Zeros8 == <<0, 0, 0, 0, 0, 0, 0, 0>>

\* the sender of the current datagram is a candidate or a loopback address
SenderIsOwn == addr.ip \in Candidates \/ addr.ip[1] = 127

\* the current datagram starts with 0x01 or 0x02
StartsAsPing == data # <<>> /\ data[1] \in {1, 2}

\* the loop is back at recvfrom and the whole body ran for the current datagram
RoundDone == pc = "recv" /\ kind \notin {"none", "exception"}

\* C1: a datagram whose sender address is a candidate address or a loopback
\* address never makes the relay send a pong (nor a probe)
C1_OwnPingNoPong == SenderIsOwn => (nsent = 0 /\ nprobes = 0)

\* C1 happens: a well-formed ping from a candidate address has been handled
C1_Witness ==
    /\ RoundDone
    /\ data = ClientPing(1, TOKEN7, MAGIC)
    /\ addr.ip \in Candidates

\* C2 as stated: with exactly one candidate whose probe returned a status
\* string, the handling of the ping sends exactly one pong, from that
\* candidate on the shared port to the client
C2_Original ==
    (RoundDone /\ StartsAsPing /\ ~SenderIsOwn /\ nanswered = 1)
    => /\ nsent = 1
       /\ last_sent.src_ip = ips_to_announce[ans_idx]
       /\ last_sent.src_port = 19132
       /\ last_sent.dst = addr

\* C2 amended: with exactly one candidate whose probe returned a non-empty
\* status string, every candidate is probed, at most one pong is sent, it is
\* sent exactly when the reply attempt did not raise, and it goes from that
\* candidate on the shared port to the client
C2_OnePongUnlessReplyFails ==
    (RoundDone /\ StartsAsPing /\ ~SenderIsOwn /\ nanswered = 1)
    => /\ nprobes = Len(ips_to_announce)
       /\ nsent = 1 - nfailed
       /\ nsent = 1 => /\ last_sent.src_ip = ips_to_announce[ans_idx]
                       /\ last_sent.src_port = 19132
                       /\ last_sent.dst = addr

\* C2 happens: two candidates, the second one answered, one pong went out
C2_Witness ==
    /\ RoundDone /\ StartsAsPing /\ ~SenderIsOwn
    /\ Len(ips_to_announce) = 2
    /\ nanswered = 1 /\ ans_idx = 2
    /\ nsent = 1

BadMagic == Len(data) >= 25 /\ data[1] = 1 /\ SubSeq(data, 10, 25) # MAGIC

PongLength(p) == 256 * p[34] + p[35]
PongString(p) == SubSeq(p, 36, Len(p))

\* C6 as stated: for every status string, the empty one included, the
\* length field of the pong is the byte length of the UTF-8 encoding of the
\* string and the bytes after it are that encoding
C6_Original ==
    pc = "codec_done" =>
        /\ PongLength(pong) = Len(Utf8Encode(real_motd.val))
        /\ PongString(pong) = Utf8Encode(real_motd.val)

\* C6 amended: that holds for every non-empty status string of at most
\* 65535 UTF-8 bytes; for the empty string the pong carries the generic
\* status string "MCPE;Bedrock Server;...", made with the server id of bytes
\* 9-16 and the ports 19132 and 19133, and its byte length
C6_LengthAndString ==
    pc = "codec_done" =>
        LET s == IF real_motd.val # <<>> THEN real_motd.val
                 ELSE GenericMotd(FromBytes(SubSeq(pong, 10, 17)), 19132)
        IN /\ Len(pong) >= 35
           /\ PongLength(pong) = Len(Utf8Encode(s))
           /\ PongString(pong) = Utf8Encode(s)
           /\ Len(pong) = 35 + PongLength(pong)

\* C6 happens: a pong was built for a string whose encoding is longer than
\* the string
C6_Witness ==
    /\ pc = "codec_done"
    /\ real_motd.val = <<72, 8364>>
    /\ PongLength(pong) = 4

InLoop == pc \in {"recv", "probe", "reply"}

\* C8: once the listener is receiving, no datagram and no exception raised
\* while handling one ends it: without a cancellation signal every step of
\* the loop leaves the process running in the loop, with the listening
\* socket bound and the candidates unchanged; and a ping from a client
\* handled after an empty datagram, a truncated ping, a ping with a wrong
\* magic or an exception gets every candidate probed and a pong from every
\* candidate that returned a status string, unless its reply attempt raised
C8_ListenerSurvives ==
    /\ [][(InLoop /\ ~signal') =>
            /\ InLoop'
            /\ status' = "running"
            /\ listener' = "bound"
            /\ ips_to_announce' = ips_to_announce]_vars
    /\ []((RoundDone /\ StartsAsPing /\ ~SenderIsOwn
             /\ prev \in {"empty", "truncated", "badmagic", "exception"})
          => (nprobes = Len(ips_to_announce) /\ nsent = nanswered - nfailed))

\* C8 happens: after an exception, a ping from a client was answered by both
\* candidates
C8_Witness ==
    /\ RoundDone /\ kind = "ping" /\ ~SenderIsOwn
    /\ prev = "exception"
    /\ Len(ips_to_announce) = 2
    /\ nsent = 2

RecvRaised == pc = "recv" /\ kind' = "exception" /\ ~signal'

C14_Original ==
    [][(pc = "probe" /\ ~signal') =>
         /\ kind' # "exception"
         /\ real_motd' = None \/ Truthy(real_motd')]_vars

\* C14 fails: the creation of the probe socket raised; no probe was sent,
\* the exception reached main's loop and ended the round of this datagram
C14_Witness ==
    /\ pc = "recv" /\ status = "running"
    /\ kind = "exception"
    /\ nprobes >= 1
    /\ probe_sock = "none"
    /\ last_probe = NoDatagram

\* C15: every probe socket query_local_server opened is closed when the call
\* ends, whether it returns a status string, gets a reply that is no pong,
\* times out or fails inside the try; no probe socket is open between probes
C15_ProbeSocketClosed ==
    /\ [][(pc = "probe" /\ ~signal') =>
            \/ probe_sock' = "closed"
            \/ probe_sock' = "none" /\ kind' = "exception"]_vars
    /\ [](status = "running" => probe_sock # "open")

\* C15 happens: the send of a probe raised inside the try, the call ended
\* with the socket closed and the round went on
C15_Witness ==
    /\ status = "running"
    /\ nprobes >= 1
    /\ kind # "exception"
    /\ last_probe = NoDatagram
    /\ real_motd = None
    /\ probe_sock = "closed"

\* C16: while one ping is handled, a failure to create, bind or send the
\* reply socket of candidate i is logged and skips only candidate i: the for
\* loop goes on with candidate i + 1, every later candidate is still probed
\* and every later responsive candidate still replies in the same round
C16_ReplyFailureSkipsOne ==
    /\ [][(pc = "reply" /\ nfailed' = nfailed + 1) =>
            /\ status' = "running"
            /\ kind' = kind
            /\ nsent' = nsent
            /\ IF idx < Len(ips_to_announce)
               THEN pc' = "probe" /\ idx' = idx + 1
               ELSE pc' = "recv"]_vars
    /\ []((RoundDone /\ nfailed >= 1) =>
            /\ nprobes = Len(ips_to_announce)
            /\ nsent = nanswered - nfailed)

\* C16 happens: the reply for the first candidate failed, the second
\* candidate was probed and its pong was sent
C16_Witness ==
    /\ RoundDone
    /\ Len(ips_to_announce) = 2
    /\ ips_to_announce[1] # ips_to_announce[2]
    /\ nprobes = 2
    /\ nanswered = 2
    /\ nfailed = 1
    /\ nsent = 1
    /\ last_sent.src_ip = ips_to_announce[2]

\* C17: a pong with source candidate c is sent only when the probe of c made
\* for this ping returned a non-empty status string, and the pong carries
\* exactly that string; for an unreachable candidate nothing is sent and the
\* listener never falls back to a placeholder status string
C17_PongOnlyWithProbedStatus ==
    /\ [][nsent' = nsent + 1 =>
            /\ pc = "reply"
            /\ real_motd.some /\ real_motd.val # <<>>
            /\ last_probe.payload = ProbePing
            /\ last_probe.dst.ip = ips_to_announce[idx]
            /\ last_sent'.src_ip = last_probe.dst.ip
            /\ last_sent'.dst = addr
            /\ PongString(last_sent'.payload) = Utf8Encode(real_motd.val)
            /\ PongLength(last_sent'.payload) = Len(Utf8Encode(real_motd.val))]_vars
    /\ [][(pc = "probe" /\ pc' = "reply") =>
            real_motd'.some /\ real_motd'.val # <<>>]_vars
    /\ [](nsent <= nanswered)

\* C17 happens: the first candidate was unreachable and got no pong, the
\* second returned a one-character status string and its pong carries it
C17_Witness ==
    /\ RoundDone
    /\ Len(ips_to_announce) = 2
    /\ nprobes = 2
    /\ nanswered = 1
    /\ ans_idx = 2
    /\ nsent = 1
    /\ real_motd = Some(MOTD_E)
    /\ PongString(last_sent.payload) = <<195, 169>>
    /\ last_sent.src_ip = ips_to_announce[2]

\* the command of get_local_interfaces_ips failed, or printed no line that
\* holds an address
NoAddressFound ==
    \/ ~if_out.ok
    \/ \A i \in 1..Len(if_out.lines) : Len(if_out.lines[i]) < 2

\* C18: get_local_interfaces_ips returns an empty list and does not raise
\* when the interface-listing command is unavailable or fails, and when it
\* prints no address of the subnet
C18_EmptyListOnFailure ==
    (resolver_calls >= 1 /\ NoAddressFound) =>
        /\ ips_to_announce = <<>>
        /\ status # "crashed"

\* C18 happens: the command printed one line without an address, the
\* resolver returned the empty list and main went on to its own check
C18_Witness ==
    /\ resolver_calls = 1
    /\ if_out = [ok |-> TRUE, lines |-> << << <<INET>> >> >>]
    /\ ips_to_announce = <<>>
    /\ status = "exit1"

\* C19 as stated: the candidate list of the interface resolver holds no
\* address twice, even when the command prints the same address on several
\* lines; so one ping never gets two pongs from the same source address
C19_Original ==
    /\ \A i, j \in 1..Len(ips_to_announce) :
         i # j => ips_to_announce[i] # ips_to_announce[j]
    /\ RoundDone => nsent <= Cardinality(Candidates)

\* the lines of the command's output that hold an address
AddressLines == {i \in 1..Len(if_out.lines) : Len(if_out.lines[i]) >= 2}

\* C19 amended: the resolver does not de-duplicate: its list has one entry
\* for every output line that holds an address, in the order of the lines,
\* and every entry is probed and answered on its own, so an address printed
\* twice gives two pongs from the same source address for one ping
C19_OneEntryPerLine ==
    /\ (resolver_calls >= 1 /\ if_out.ok) =>
          /\ Len(ips_to_announce) = Cardinality(AddressLines)
          /\ AddressLines = 1..Len(if_out.lines) =>
                \A i \in AddressLines : ips_to_announce[i] = if_out.lines[i][2][1]
    /\ (RoundDone /\ nprobes > 0) =>
          /\ nprobes = Len(ips_to_announce)
          /\ nsent = nanswered - nfailed

\* C19 happens: the command printed the same address on two lines and one
\* ping got two pongs from that address
C19_Witness ==
    /\ resolver_calls = 1
    /\ if_out.lines = <<IfLine(IP1), IfLine(IP1)>>
    /\ ips_to_announce = <<IP1, IP1>>
    /\ RoundDone
    /\ nsent = 2
    /\ last_sent.src_ip = IP1

\* C20: the candidate list is never modified during a listening session:
\* from the successful bind on, every receive, probe, reply and
\* error-handling step leaves it as it was at bind time; it is only written
\* at startup
C20_CandidatesFrozen ==
    /\ [][listener = "bound" => ips_to_announce' = ips_to_announce]_vars
    /\ [][ips_to_announce' # ips_to_announce =>
            (pc = "start" /\ listener = "none")]_vars

\* C20 happens: in one session an exception was handled, then a ping was
\* received, its candidate probed and its pong sent
C20_Witness ==
    /\ listener = "bound"
    /\ prev = "exception"
    /\ RoundDone
    /\ nprobes = Len(ips_to_announce)
    /\ nsent = 1
    /\ nfailed = 0

\* the example of C21: the ping 01 0000000000000007 <magic> 0000000000000000
\* is being answered for candidate 10.0.0.5, whose probe returned the motd
\* "MCPE;Hi;589;1.20.0;0;10;123;Level;Survival;1;19132;19133;"
ExampleReplySent ==
    /\ nsent' = nsent + 1
    /\ data = <<1>> \o TOKEN7 \o MAGIC \o Zeros8
    /\ ips_to_announce[idx] = IP3
    /\ real_motd = Some(MOTD_MCPE)

\* the reply of the example, but for its length field
ExampleReplyAround(p) ==
    /\ p[1] = 28
    /\ SubSeq(p, 2, 9) = TOKEN7
    /\ SubSeq(p, 18, 33) = MAGIC
    /\ SubSeq(p, 36, Len(p)) = MOTD_MCPE

\* C21 as stated: in the example the relay's reply is 1C, the token
\* 0000000000000007, 8 server-id bytes, the magic, the length field 00 2B and
\* exactly the motd bytes, sent from 10.0.0.5:19132 to the client
C21_Original ==
    [][ExampleReplySent =>
         /\ ExampleReplyAround(last_sent'.payload)
         /\ SubSeq(last_sent'.payload, 34, 35) = <<0, 43>>
         /\ last_sent'.src_ip = IP3 /\ last_sent'.src_port = 19132
         /\ last_sent'.dst = addr]_vars

\* C21 amended: the same reply, with the length field 00 39: the motd of the
\* example is 57 bytes long, and the reply 92
C21_ExampleReply ==
    [][ExampleReplySent =>
         /\ ExampleReplyAround(last_sent'.payload)
         /\ SubSeq(last_sent'.payload, 34, 35) = <<0, 57>>
         /\ Len(last_sent'.payload) = 92
         /\ last_sent'.src_ip = IP3 /\ last_sent'.src_port = 19132
         /\ last_sent'.dst = addr]_vars

\* C21 happens: the reply of the example was sent to the client
C21_Witness ==
    /\ nsent = 1
    /\ data = <<1>> \o TOKEN7 \o MAGIC \o Zeros8
    /\ addr = [ip |-> CLIENT, port |-> 50000]
    /\ ips_to_announce = <<IP3>>
    /\ last_probe.dst = [ip |-> IP3, port |-> 19132]
    /\ last_sent.payload =
         <<28>> \o TOKEN7 \o <<0, 0, 0, 0, 1, 2, 3, 4>> \o MAGIC \o <<0, 57>> \o MOTD_MCPE
    /\ last_sent.src_ip = IP3
    /\ last_sent.dst = addr

\* this step is a call of update_world_json or set_active on the file of
\* type w that did not raise, so the file was written
Wrote(w) ==
    /\ last_op'.name \in {"update_world_json", "set_active"}
    /\ last_op'.which = w
    /\ ~last_op'.raised

\* C22: whenever update_world_json or set_active overwrites an existing
\* world file, the .prewrite.bak copy is made first: after the write it holds
\* exactly the content the world file had immediately before the write, in
\* any sequence of install, activate and deactivate calls
C22_PrewriteBackupHoldsOld ==
    [][\A w \in Types :
         (Wrote(w) /\ world_file[w].exists) =>
             /\ prewrite_bak'[w] = world_file[w]
             /\ world_file'[w].exists
             /\ world_file'[w].fmt = "indent4"]_vars

\* C22 happens: pack A was activated in a hand-written world file; the file
\* now holds both entries and the backup is the hand-written file
C22_Witness ==
    /\ last_op.name = "set_active" /\ last_op.active /\ ~last_op.raised
    /\ world_file["behavior"] = dump_json(<<Item(TRUE, "X", 1), Entry(REF_A)>>)
    /\ prewrite_bak["behavior"] = File("other", "list", <<Item(TRUE, "X", 1)>>)

\* this step is a call of update_world_json or set_active on the file of
\* type w
Called(w) ==
    /\ last_op'.name \in {"update_world_json", "set_active"}
    /\ last_op'.which = w

\* C23: when the world file exists but is not valid JSON or is no JSON list,
\* update_world_json and set_active copy it to .invalid.bak and raise; the
\* world file is not overwritten and no pack is activated or deactivated
C23_InvalidFileIsKept ==
    [][\A w \in Types :
         (Called(w) /\ world_file[w].exists /\ world_file[w].kind # "list") =>
             /\ last_op'.raised
             /\ invalid_bak'[w] = world_file[w]
             /\ world_file' = world_file
             /\ prewrite_bak' = prewrite_bak]_vars

\* C23 happens: an install found a world file that holds a JSON object; the
\* call raised, the file is as it was and its copy is in .invalid.bak
C23_Witness ==
    /\ last_op.name = "update_world_json" /\ last_op.raised
    /\ world_file["behavior"] = NotList
    /\ invalid_bak["behavior"] = NotList
    /\ prewrite_bak["behavior"] = Absent

\* C24 as stated: after _batch_set_active returns, for each pack type the
\* set of active pack_ids of the world file is exactly the set of pack_ids
\* of the selected packs of that type, whatever was active before (active
\* ids of packs that are not installed included)
C24_Original ==
    [][(last_op'.name = "batch_set_active" /\ ~last_op'.raised) =>
         \A w \in Types :
            ActiveIds(world_file'[w]) = SelectedIds(last_op'.selected, w)]_vars

\* C24 fails: the world file had an entry of pack X, which is not installed;
\* pack A alone was selected, and after the call both X and A are active
C24_Witness ==
    /\ last_op.name = "batch_set_active" /\ ~last_op.raised
    /\ last_op.selected = {REF_A}
    /\ world_file["behavior"] = dump_json(<<Item(TRUE, "X", 1), Entry(REF_A)>>)
    /\ prewrite_bak["behavior"] = File("other", "list", <<Item(TRUE, "X", 1)>>)
    /\ ActiveIds(world_file["behavior"]) = {"X", "A"}

\* C25 as stated: every reply socket is closed by the end of its candidate's
\* reply attempt, also when the bind or the send fails; whenever the listener
\* is back in receive no reply socket is open
C25_Original ==
    /\ [][(pc = "reply" /\ ~signal' /\ kind' # "exception") =>
            reply_sock' \in {"none", "closed"}]_vars
    /\ []((pc = "recv" /\ status = "running") => reply_sock # "open")

\* C25 fails: the bind or the send of the only reply of a ping raised; the
\* listener is back in receive and the reply socket is still open
C25_Witness ==
    /\ pc = "recv" /\ status = "running"
    /\ RoundDone
    /\ nanswered = 1
    /\ nfailed = 1
    /\ nsent = 0
    /\ reply_sock = "open"

\* C26 as stated: datagrams are handled strictly one at a time: after one is
\* received the listener does not receive again until every candidate has
\* been probed, one at a time and in list order, and every reply that
\* resulted has been sent or has failed
C26_Original ==
    /\ [][(data' # data \/ addr' # addr) => pc = "recv"]_vars
    /\ [][nprobes' = nprobes + 1 => (pc = "probe" /\ idx = nprobes + 1)]_vars
    /\ [][(pc \in {"probe", "reply"} /\ pc' = "recv") =>
            /\ nprobes' = Len(ips_to_announce)
            /\ nsent' + nfailed' = nanswered']_vars

\* C26 fails: of two candidates the creation of the first probe's socket
\* raised; the second candidate was never probed and the listener is back
\* in receive
C26_Witness ==
    /\ pc = "recv" /\ status = "running"
    /\ StartsAsPing /\ ~SenderIsOwn
    /\ Len(ips_to_announce) = 2
    /\ kind = "exception"
    /\ nprobes = 1
    /\ last_probe = NoDatagram
    /\ nsent = 0

\* C27: the handling of one received datagram terminates: with a finite
\* candidate list and every probe bounded by its timeout, at most one probe
\* is made per candidate and the listener is back in receive afterwards,
\* also when no backend ever answers
C27_HandlingTerminates ==
    /\ [][nprobes' = nprobes + 1 =>
            (nprobes' <= Len(ips_to_announce) /\ idx = nprobes')]_vars
    /\ (pc \in {"probe", "reply"}) ~> (pc = "recv")

\* C27 happens: a ping from a client was handled with two candidates whose
\* probes both timed out; the listener is back in receive
C27_Witness ==
    /\ pc = "recv"
    /\ kind = "ping" /\ ~SenderIsOwn
    /\ Len(ips_to_announce) = 2
    /\ nprobes = 2
    /\ last_probe.payload = ProbePing
    /\ nanswered = 0
    /\ nsent = 0

\* receiving, probing and replying happen only while the listening socket is
\* bound, and it is bound only while the candidate list is non-empty
WorksOnlyWhileBound ==
    /\ pc \in {"recv", "probe", "reply"} => listener = "bound"
    /\ listener = "bound" => ips_to_announce # <<>>

IsPongReply == data # <<>> /\ data[1] = 28 /\ Len(data) > 33

\* the length a reply declares at offset 33: two bytes, big-endian, or the
\* single byte that is there when the reply ends after it
Declared == IF Len(data) >= 35 THEN 256 * data[34] + data[35] ELSE data[34]

\* the bytes of the reply after the length field, at most as many as declared
StringBytes == SubSeq(data, 36, Min(Len(data), 35 + Declared))

C30_RoundTrip ==
    (pc = "codec_done" /\ real_motd.val # <<>>) =>
        /\ pong[1] = 28
        /\ SubSeq(pong, 18, 33) = MAGIC
        /\ Len(pong) = 35 + Len(Utf8Encode(real_motd.val))
        /\ 256 * pong[34] + pong[35] = Len(pong) - 35
        /\ SubSeq(pong, 36, Len(pong)) = Utf8Encode(real_motd.val)
        /\ ParsePong(pong) = Some(real_motd.val)

\* C30 happens: a pong was built for a two-character string of five UTF-8
\* bytes on a ping payload shorter than a token, and parses back to it
C30_Witness ==
    /\ pc = "codec_done"
    /\ Len(data) < 9
    /\ real_motd = Some(<<128512, 105>>)
    /\ Len(pong) = 40
    /\ ParsePong(pong) = real_motd

\* C31: when the configured list TARGET_IPS is not empty the interface
\* resolver is never invoked and the candidates used for the whole run are
\* exactly the configured list (a process interrupted before line 112 has
\* none yet); the resolver is invoked only when the configured list is empty
C31_ConfiguredListBypassesResolver ==
    /\ target_ips # <<>> =>
          /\ resolver_calls = 0
          /\ if_out = NoOutput
          /\ ips_to_announce \in {<<>>, target_ips}
          /\ pc \notin {"start", "done"} => ips_to_announce = target_ips
          /\ last_probe # NoDatagram =>
                \E i \in 1..Len(target_ips) : last_probe.dst.ip = target_ips[i]
    /\ resolver_calls > 0 => target_ips = <<>>

\* C31 happens: with a configured list the relay has probed a candidate for
\* a client's ping and sent a pong without reading the interfaces
C31_Witness ==
    /\ target_ips = <<IP3>>
    /\ ips_to_announce = <<IP3>>
    /\ resolver_calls = 0
    /\ nprobes = 1
    /\ last_probe.dst.ip = IP3
    /\ nsent = 1

\* a call of query_local_server has just been made
ProbeCalled == nprobes' = nprobes + 1

\* the datagram of lines 84-90 for the candidate being probed: 0x01, an
\* 8-byte token, the magic and a zero client id, to the candidate's address
\* on the discovery port
IsProbeFor(d, server_ip) ==
    /\ Len(d.payload) = 33
    /\ d.payload[1] = 1
    /\ SubSeq(d.payload, 10, 25) = MAGIC
    /\ SubSeq(d.payload, 26, 33) = Zeros8
    /\ d.dst = [ip |-> server_ip, port |-> 19132]

\* C32 as stated: every probe sends exactly one datagram, a recognized ping
\* of 33 bytes to the candidate's address on the discovery port
C32_Original ==
    [][ProbeCalled => IsProbeFor(last_probe', ips_to_announce[idx])]_vars

\* C32: the datagram a probe sends is a recognized ping (0x01, an 8-byte
\* token, the magic, a zero client id, 33 bytes) to the candidate's address
\* on the discovery port, and a probe sends at most one: none when its
\* socket cannot be created or sendto raises, and one whenever the probe
\* returns a status string
C32_ProbeIsOnePing ==
    [][ProbeCalled =>
          /\ \/ last_probe' = NoDatagram
             \/ IsProbeFor(last_probe', ips_to_announce[idx])
          /\ nanswered' = nanswered + 1 => last_probe' # NoDatagram
          /\ probe_sock' = "none" => last_probe' = NoDatagram]_vars

\* C32 happens: the second candidate has been probed with the ping and did
\* not answer
C32_Witness ==
    /\ nprobes = 2
    /\ Len(ips_to_announce) = 2
    /\ IsProbeFor(last_probe, ips_to_announce[2])
    /\ real_motd = None
    /\ nsent = 1

\* recvfrom of line 145 has just returned a datagram
Received == pc = "recv" /\ pc' # "done" /\ kind' # "exception"

\* C33: the listener treats a received datagram as an unconnected ping
\* exactly when it is not empty and its first byte is 0x01 or 0x02: such a
\* datagram from a sender that is neither a candidate nor a loopback address
\* starts the probing of the candidates, and every other datagram is ignored
\* without probing any candidate
C33_PingIffFirstByte ==
    [][Received =>
          LET first_byte_ok == data' # <<>> /\ data'[1] \in {1, 2}
              own == \/ \E i \in 1..Len(ips_to_announce) :
                           ips_to_announce[i] = addr'.ip
                     \/ addr'.ip[1] = 127
          IN /\ (pc' = "probe" /\ idx' = 1) <=> (first_byte_ok /\ ~own)
             /\ ~first_byte_ok => (pc' = "recv" /\ nprobes' = 0 /\ nsent' = 0)
             /\ kind' \in {"empty", "other"} <=> ~first_byte_ok]_vars

\* C33 happens: a datagram starting with 0x1c was ignored and the next one,
\* starting with 0x02, is about to have the first candidate probed
C33_Witness ==
    /\ prev = "other"
    /\ data # <<>> /\ data[1] = 2
    /\ pc = "probe" /\ idx = 1
    /\ nprobes = 0

\* the handling of the current datagram has just ended with the loop back at
\* recvfrom: the datagram was ignored, or the pass over the candidates ended
HandlingEnds ==
    /\ pc' = "recv"
    /\ Received \/ pc \in {"probe", "reply"}

\* C34 as stated: the number of backend probes caused by one received
\* datagram is exactly the number of candidates when the datagram is
\* accepted as a ping from a sender that is neither a candidate nor a
\* loopback address, and zero otherwise
C34_Original ==
    [][HandlingEnds =>
          nprobes' = IF /\ data' # <<>> /\ data'[1] \in {1, 2}
                        /\ addr'.ip \notin Candidates
                        /\ addr'.ip[1] # 127
                     THEN Len(ips_to_announce)
                     ELSE 0]_vars

\* C34 fails: a ping starting with 0x02 from a client was accepted with two
\* candidates, the creation of the second probe's socket raised after the
\* first candidate had been probed and answered, and the listener is back in
\* receive after one datagram sent to a backend
C34_Witness ==
    /\ pc = "recv" /\ status = "running"
    /\ data # <<>> /\ data[1] = 2
    /\ ~SenderIsOwn
    /\ Len(ips_to_announce) = 2
    /\ kind = "exception"
    /\ nprobes = 2
    /\ nsent = 1
    /\ probe_sock = "none"

\* the pack_ids of the entries of a list
IdsOf(l) == {l[i].pack_id : i \in {j \in 1..Len(l) : l[j].dict /\ l[j].pack_id # ""}}

\* C35: update_world_json is a safe merge: on a valid (or absent) world file
\* it keeps every existing entry unchanged and in order, appends one entry
\* per new ref whose pack_id is not yet present, never a second entry for a
\* pack_id already present or repeated in the new refs, and applying it
\* again with the same refs leaves the file as the first application did
C35_SafeMerge ==
    [][/\ (last_op'.name = "update_world_json" /\ ~last_op'.raised) =>
            LET w == last_op'.which
                refs == last_op'.refs
                old == IF world_file[w].exists THEN world_file[w].val ELSE <<>>
                new == world_file'[w].val
                added == SubSeq(new, Len(old) + 1, Len(new))
            IN /\ world_file'[w].exists /\ world_file'[w].kind = "list"
               /\ Len(new) >= Len(old)
               /\ SubSeq(new, 1, Len(old)) = old
               /\ \A i \in 1..Len(added) :
                     \E k \in 1..Len(refs) :
                        added[i] = [dict |-> TRUE, pack_id |-> refs[k].pack_id,
                                    version |-> refs[k].version]
               /\ {added[i].pack_id : i \in 1..Len(added)}
                     = {refs[k].pack_id : k \in 1..Len(refs)} \ IdsOf(old)
               /\ \A i, j \in 1..Len(added) :
                     added[i].pack_id = added[j].pack_id => i = j
       /\ (/\ last_op.name = "update_world_json" /\ ~last_op.raised
           /\ last_op' = last_op) => world_file' = world_file]_vars

\* C35 happens: the refs B, A, B were merged into a file that held an item
\* that is no dict and an entry of pack A with another version: one entry,
\* for B, was appended behind them
C35_Witness ==
    /\ last_op.name = "update_world_json" /\ ~last_op.raised
    /\ last_op.refs = <<REF_B, REF_A, REF_B>>
    /\ prewrite_bak["behavior"] = File("other", "list", <<JUNK, Item(TRUE, "A", 2)>>)
    /\ world_file["behavior"] = dump_json(<<JUNK, Item(TRUE, "A", 2), Entry(REF_B)>>)

\* the items of a list that are no entries of pack_id pid
OthersOf(l, pid) ==
    LET Other(item) == ~(item.dict /\ item.pack_id = pid)
    IN SelectSeq(l, Other)

\* the list a world file holds, the empty list for a file that does not
\* exist
ListOf(f) == IF f.exists THEN f.val ELSE <<>>

\* C36: set_active(world, ref, True) leaves ref.pack_id active, with no
\* additional entry when it was already active; set_active(world, ref, False)
\* removes every entry with ref.pack_id, so the pack is no longer active;
\* both leave the items of other pack_ids and the world file of the other
\* pack type unchanged; and deactivating a pack right after activating it,
\* when it was not active before, restores the original list
C36_SetActiveFrame ==
    [][(last_op'.name = "set_active" /\ ~last_op'.raised) =>
          LET w == last_op'.which
              pid == last_op'.pack_id
              old == ListOf(world_file[w])
              new == ListOf(world_file'[w])
              before == ListOf(prewrite_bak[w])
          IN /\ world_file'[w].exists
             /\ \A o \in Types \ {w} :
                   /\ world_file'[o] = world_file[o]
                   /\ prewrite_bak'[o] = prewrite_bak[o]
             /\ OthersOf(new, pid) = OthersOf(old, pid)
             /\ last_op'.active =>
                   /\ pid \in IdsOf(new)
                   /\ pid \in IdsOf(old) => new = old
                   /\ pid \notin IdsOf(old) => Len(new) = Len(old) + 1
             /\ ~last_op'.active =>
                   /\ pid \notin IdsOf(new)
                   /\ new = OthersOf(old, pid)
             /\ (/\ ~last_op'.active
                 /\ last_op.name = "set_active" /\ last_op.active
                 /\ ~last_op.raised
                 /\ last_op.which = w /\ last_op.pack_id = pid
                 /\ pid \notin IdsOf(before)) => new = before]_vars

\* C36 happens: pack A was activated in a hand-written file that held an
\* entry of pack X and an item that is no dict, and then deactivated: the
\* file holds the original list again, and the resource file is untouched
C36_Witness ==
    /\ last_op.name = "set_active" /\ ~last_op.active /\ ~last_op.raised
    /\ last_op.pack_id = "A"
    /\ prewrite_bak["behavior"] =
          dump_json(<<Item(TRUE, "X", 1), JUNK, Entry(REF_A)>>)
    /\ world_file["behavior"] = dump_json(<<Item(TRUE, "X", 1), JUNK>>)
    /\ world_file["resource"] = File("other", "list", <<Entry(REF_R)>>)

\* C37: delete_pack first deactivates the pack in the world JSON and only
\* then deletes its folder: after a delete_pack whose deactivation and
\* rmtree both succeeded the pack is neither active nor installed, and if
\* the deactivation aborts on an invalid world JSON the pack folder is not
\* deleted (and the world file is left as it was)
C37_DeactivateThenDelete ==
    [][last_op'.name = "delete_pack" =>
          LET w == last_op'.which
              pid == last_op'.pack_id
              invalid == world_file[w].exists /\ world_file[w].kind # "list"
          IN /\ last_op'.raised <=> invalid
             /\ last_op'.raised =>
                   /\ folders' = folders
                   /\ world_file' = world_file
             /\ ~last_op'.raised =>
                   /\ world_file'[w].exists
                   /\ pid \notin IdsOf(world_file'[w].val)
                   /\ folders' \subseteq folders
                   /\ last_op'.rm \in {"ok", "missing"} =>
                         \A r \in folders' : ~(r.which = w /\ r.pack_id = pid)
                   /\ \A r \in folders \ folders' : r.which = w /\ r.pack_id = pid]_vars

\* C37 happens: pack A, active and installed, was deleted: its entry is gone
\* from the world file, its folder is gone, and the resource pack is still
\* installed
C37_Witness ==
    /\ last_op.name = "delete_pack" /\ ~last_op.raised /\ last_op.rm = "ok"
    /\ last_op.pack_id = "A"
    /\ prewrite_bak["behavior"] = File("other", "list", <<Item(TRUE, "X", 1), Entry(REF_A)>>)
    /\ world_file["behavior"] = dump_json(<<Item(TRUE, "X", 1)>>)
    /\ folders = {REF_R}

====
